---- MODULE Spec2Model ----
(***************************************************************************)
(* A model of server.py: the in-memory user store, the request router      *)
(* (do_GET / do_POST / do_OPTIONS and the base handler's method lookup),    *)
(* the JSON body reader and the static file resolver.                       *)
(*                                                                          *)
(* Python strings are sequences of one-character strings, so that          *)
(* startswith, split, lstrip, int() and the substring test `in` are         *)
(* computed character by character, as the interpreter computes them.      *)
(***************************************************************************)
EXTENDS Integers, Sequences, FiniteSets, TLC

(***************************************************************************)
(* String primitives                                                        *)
(***************************************************************************)

\* str.startswith(prefix)
StartsWith(s, prefix) ==
    /\ Len(prefix) <= Len(s)
    /\ SubSeq(s, 1, Len(prefix)) = prefix

\* `needle in s` for two strings: needle occurs as a substring of s
Contains(s, needle) ==
    \E i \in 0..(Len(s) - Len(needle)) : SubSeq(s, i + 1, i + Len(needle)) = needle

\* index of the first character of s that is in the set cs, or 0
RECURSIVE FirstOf(_, _, _)
FirstOf(s, cs, i) ==
    IF i > Len(s) THEN 0
    ELSE IF s[i] \in cs THEN i
    ELSE FirstOf(s, cs, i + 1)

\* s.split('/'): the segments between the separators, empty ones included
RECURSIVE Split(_)
Split(s) ==
    LET i == FirstOf(s, {"/"}, 1) IN
    IF i = 0 THEN << s >>
    ELSE << SubSeq(s, 1, i - 1) >> \o Split(SubSeq(s, i + 1, Len(s)))

\* s.lstrip('/')
RECURSIVE LStrip(_)
LStrip(s) ==
    IF s # << >> /\ s[1] = "/" THEN LStrip(Tail(s)) ELSE s

\* '/'.join(segs)
RECURSIVE Join(_)
Join(segs) ==
    IF segs = << >> THEN << >>
    ELSE IF Len(segs) = 1 THEN segs[1]
    ELSE segs[1] \o << "/" >> \o Join(Tail(segs))

\* the absolute path made of the segments segs: '/' + '/'.join(segs)
AbsStr(segs) == << "/" >> \o Join(segs)

Last(seq) == seq[Len(seq)]

Digits == {"0", "1", "2", "3", "4", "5", "6", "7", "8", "9"}

DigitVal(c) ==
    CASE c = "0" -> 0 [] c = "1" -> 1 [] c = "2" -> 2 [] c = "3" -> 3
      [] c = "4" -> 4 [] c = "5" -> 5 [] c = "6" -> 6 [] c = "7" -> 7
      [] c = "8" -> 8 [] c = "9" -> 9

RECURSIVE DecVal(_, _)
DecVal(s, acc) ==
    IF s = << >> THEN acc ELSE DecVal(Tail(s), 10 * acc + DigitVal(s[1]))

\* a variant of IntOf: a test in the manner of str.isdigit(), which takes
\* no sign
IntOfDigitsOnly(s) ==
    IF s # << >> /\ \A i \in 1..Len(s) : s[i] \in Digits
    THEN [ok |-> TRUE, val |-> DecVal(s, 0)]
    ELSE [ok |-> FALSE, val |-> 0]

\* int(s) on the strings of the model (no blanks, no underscores): an
\* optional sign followed by one or more decimal digits; anything else
\* raises ValueError.
IntOf(s) ==
    LET signed == s # << >> /\ s[1] \in {"+", "-"}
        ds     == IF signed THEN Tail(s) ELSE s
    IN  IF ds # << >> /\ \A i \in 1..Len(ds) : ds[i] \in Digits
        THEN [ok |-> TRUE,
              val |-> IF signed /\ s[1] = "-" THEN 0 - DecVal(ds, 0) ELSE DecVal(ds, 0)]
        ELSE [ok |-> FALSE, val |-> 0]

(***************************************************************************)
(* os.path on POSIX, and the file system the server runs in                 *)
(***************************************************************************)

s_public == << "p", "u", "b", "l", "i", "c" >>
s_index_html == << "i", "n", "d", "e", "x", ".", "h", "t", "m", "l" >>
s_srv == << "s", "r", "v" >>
s_public2 == << "p", "u", "b", "l", "i", "c", "2" >>
s_secret == << "s", "e", "c", "r", "e", "t" >>
s_key == << "k", "e", "y" >>
s_db == << "d", "b" >>
s_ln == << "l", "n" >>
s_docs == << "d", "o", "c", "s" >>
s_empty == << "e", "m", "p", "t", "y" >>
s_app_js == << "a", "p", "p", ".", "j", "s" >>
s_locked_css == << "l", "o", "c", "k", "e", "d", ".", "c", "s", "s" >>
s_dotdot == << ".", "." >>
s_dot == << "." >>

\* The process's working directory, as path components.
Cwd == << s_srv >>

\* The file system: the served tree, a directory beside it whose name
\* starts with the root's name, a directory outside it, and a symbolic link
\* inside the root that points outside. A symbolic link's target is an
\* absolute path without links.
FileSystem ==
    { [path |-> << s_srv >>,                           type |-> "dir",  target |-> << >>, readable |-> TRUE],
      [path |-> << s_srv, s_public >>,                 type |-> "dir",  target |-> << >>, readable |-> TRUE],
      [path |-> << s_srv, s_public, s_index_html >>,   type |-> "file", target |-> << >>, readable |-> TRUE],
      [path |-> << s_srv, s_public, s_app_js >>,       type |-> "file", target |-> << >>, readable |-> TRUE],
      [path |-> << s_srv, s_public, s_locked_css >>,   type |-> "file", target |-> << >>, readable |-> FALSE],
      [path |-> << s_srv, s_public, s_docs >>,         type |-> "dir",  target |-> << >>, readable |-> TRUE],
      [path |-> << s_srv, s_public, s_docs, s_index_html >>,
                                                       type |-> "file", target |-> << >>, readable |-> TRUE],
      [path |-> << s_srv, s_public, s_empty >>,        type |-> "dir",  target |-> << >>, readable |-> TRUE],
      [path |-> << s_srv, s_public, s_ln >>,           type |-> "link", target |-> << s_srv, s_secret >>,
                                                                                          readable |-> TRUE],
      [path |-> << s_srv, s_secret >>,                 type |-> "dir",  target |-> << >>, readable |-> TRUE],
      [path |-> << s_srv, s_secret, s_key >>,          type |-> "file", target |-> << >>, readable |-> TRUE],
      [path |-> << s_srv, s_public2 >>,                type |-> "dir",  target |-> << >>, readable |-> TRUE],
      [path |-> << s_srv, s_public2, s_db >>,          type |-> "file", target |-> << >>, readable |-> TRUE] }

NoNode == [path |-> << >>, type |-> "none", target |-> << >>, readable |-> FALSE]

\* lstat: the node at exactly these components, links not followed
Lstat(comps) ==
    IF \E n \in FileSystem : n.path = comps
    THEN CHOOSE n \in FileSystem : n.path = comps
    ELSE NoNode

\* the non-empty components of a path string
Components(s) == SelectSeq(Split(s), LAMBDA c : c # << >>)

\* os.path.normpath of an absolute path string: empty and '.' components
\* dropped, '..' removing the component before it (lexically).
RECURSIVE NormComps(_, _)
NormComps(comps, acc) ==
    IF comps = << >> THEN acc
    ELSE LET c == Head(comps) IN
         IF c = s_dot THEN NormComps(Tail(comps), acc)
         ELSE IF c = s_dotdot
              THEN NormComps(Tail(comps),
                             IF acc = << >> THEN acc ELSE SubSeq(acc, 1, Len(acc) - 1))
              ELSE NormComps(Tail(comps), Append(acc, c))

NormPath(s) == AbsStr(NormComps(Components(s), << >>))

\* os.path.join(a, b) for a relative b
PathJoin(a, b) ==
    IF a # << >> /\ Last(a) = "/" THEN a \o b ELSE a \o << "/" >> \o b

\* os.path.abspath(p): an absolute p is normalised, a relative one is
\* joined to the working directory first.
AbsPath(p) ==
    IF p # << >> /\ p[1] = "/" THEN NormPath(p) ELSE NormPath(PathJoin(AbsStr(Cwd), p))

\* The location the kernel reaches for a path string: components walked
\* left to right, a symbolic link replaced by its target, '..' taken from
\* the directory reached so far (os.path.realpath).
RECURSIVE Walk(_, _)
Walk(comps, cur) ==
    IF comps = << >> THEN cur
    ELSE LET c == Head(comps) IN
         IF c = s_dot THEN Walk(Tail(comps), cur)
         ELSE IF c = s_dotdot
              THEN Walk(Tail(comps),
                        IF cur = << >> THEN cur ELSE SubSeq(cur, 1, Len(cur) - 1))
              ELSE LET n == Lstat(Append(cur, c)) IN
                   Walk(Tail(comps), IF n.type = "link" THEN n.target ELSE Append(cur, c))

RealPath(s) == Walk(Components(s), << >>)

\* stat: the node a path string leads to, links followed
Stat(s) == Lstat(RealPath(s))

\* os.path.isdir / os.path.exists
IsDir(s) == Stat(s).type = "dir"
Exists(s) == Stat(s).type # "none"

\* open(p, 'rb').read(): the bytes, named by the file they come from, or an
\* OSError (a directory, a file the process may not read).
ReadFile(s) ==
    LET n == Stat(s) IN
    IF n.type = "file" /\ n.readable
    THEN [ok |-> TRUE, content |-> n.path]
    ELSE [ok |-> FALSE, content |-> << >>]

\* os.path.join(a, b): an absolute b replaces a
OsPathJoin(a, b) == IF b # << >> /\ b[1] = "/" THEN b ELSE PathJoin(a, b)

\* index of the last '.' of s, or 0
RECURSIVE LastDot(_, _)
LastDot(s, i) == IF i = 0 THEN 0 ELSE IF s[i] = "." THEN i ELSE LastDot(s, i - 1)

\* os.path.splitext(p)[1]: from the last '.' of the last component, unless
\* that component has only leading dots before it
SplitExt(p) ==
    LET comps == Split(p)
        base  == Last(comps)
        i     == LastDot(base, Len(base))
    IN  IF i > 0 /\ \E j \in 1..i : base[j] # "." THEN SubSeq(base, i, Len(base)) ELSE << >>

LowerChar(c) ==
    CASE c = "A" -> "a" [] c = "B" -> "b" [] c = "C" -> "c" [] c = "D" -> "d" [] c = "E" -> "e" [] c = "F" -> "f"
      [] c = "G" -> "g" [] c = "H" -> "h" [] c = "I" -> "i" [] c = "J" -> "j" [] c = "K" -> "k" [] c = "L" -> "l" [] c = "M" -> "m"
      [] c = "N" -> "n" [] c = "O" -> "o" [] c = "P" -> "p" [] c = "Q" -> "q" [] c = "R" -> "r" [] c = "S" -> "s" [] c = "T" -> "t"
      [] c = "U" -> "u" [] c = "V" -> "v" [] c = "W" -> "w" [] c = "X" -> "x" [] c = "Y" -> "y" [] c = "Z" -> "z"
      [] OTHER -> c

\* str.lower()
Lower(s) == [i \in 1..Len(s) |-> LowerChar(s[i])]

\* content_types.get(ext, 'application/octet-stream')
ContentType(ext) ==
    CASE ext = << ".", "h", "t", "m", "l" >> -> "text/html"
      [] ext = << ".", "c", "s", "s" >> -> "text/css"
      [] ext = << ".", "j", "s" >> -> "application/javascript"
      [] ext = << ".", "j", "s", "o", "n" >> -> "application/json"
      [] ext = << ".", "p", "n", "g" >> -> "image/png"
      [] ext = << ".", "j", "p", "g" >> -> "image/jpeg"
      [] ext = << ".", "g", "i", "f" >> -> "image/gif"
      [] ext = << ".", "s", "v", "g" >> -> "image/svg+xml"
      [] OTHER -> "application/octet-stream"

(***************************************************************************)
(* JSON values (json.loads) and the Python operations the handler applies   *)
(* to them. Every value has the same five fields; t names the type.         *)
(***************************************************************************)

JNull == [t |-> "null", s |-> << >>, n |-> 0, l |-> << >>, o |-> << >>]
JNum(k) == [t |-> "num", s |-> << >>, n |-> k, l |-> << >>, o |-> << >>]
JBool(b) == [t |-> "bool", s |-> << >>, n |-> IF b THEN 1 ELSE 0, l |-> << >>, o |-> << >>]
JStr(str) == [t |-> "str", s |-> str, n |-> 0, l |-> << >>, o |-> << >>]
\* a list of values
JList(items) == [t |-> "list", s |-> << >>, n |-> 0, l |-> items, o |-> << >>]
\* an object: its << key, value >> pairs in document order
JObj(pairs) == [t |-> "obj", s |-> << >>, n |-> 0, l |-> << >>, o |-> pairs]
\* a document whose lists or objects nest deeper than the interpreter's
\* recursion limit: json.loads raises RecursionError on it
JDeep == [t |-> "deep", s |-> << >>, n |-> 0, l |-> << >>, o |-> << >>]
\* in place of a value: the RecursionError that left json.loads
RecursionError == [t |-> "RecursionError", s |-> << >>, n |-> 0, l |-> << >>, o |-> << >>]

\* `key in data`: a key of a dict, an element of a list, a substring of a
\* str; a TypeError for a number or a bool.
PyIn(key, data) ==
    CASE data.t = "obj"  -> [raised |-> FALSE, val |-> \E i \in 1..Len(data.o) : data.o[i][1] = key]
      [] data.t = "list" -> [raised |-> FALSE,
                             val |-> \E i \in 1..Len(data.l) : data.l[i].t = "str" /\ data.l[i].s = key]
      [] data.t = "str"  -> [raised |-> FALSE, val |-> Contains(data.s, key)]
      [] OTHER           -> [raised |-> TRUE, val |-> FALSE]

\* the value json.loads keeps for a key: the last pair with that key
DictValue(pairs, key) ==
    LET i == CHOOSE i \in 1..Len(pairs) :
                 /\ pairs[i][1] = key
                 /\ \A j \in (i + 1)..Len(pairs) : pairs[j][1] # key
    IN  pairs[i][2]

\* data[key] with a str key: the value of a dict (the key is known to be
\* present where the handler subscripts), a TypeError for a list or a str.
PyGetItem(data, key) ==
    IF data.t = "obj"
    THEN [raised |-> FALSE, val |-> DictValue(data.o, key)]
    ELSE [raised |-> TRUE, val |-> JNull]

\* data.get(key, default) of a dict
PyGet(data, key, default) ==
    IF \E i \in 1..Len(data.o) : data.o[i][1] = key THEN DictValue(data.o, key) ELSE default

k_name == << "n", "a", "m", "e" >>
k_email == << "e", "m", "a", "i", "l" >>
k_role == << "r", "o", "l", "e" >>
v_user == << "u", "s", "e", "r" >>

(***************************************************************************)
(* Responses                                                                *)
(***************************************************************************)

\* send_json_response(data, status_code): one response, status line and body
send_json_response(data, status_code) ==
    [status |-> status_code, ctype |-> "application/json", body |-> data]

\* a variant of send_error_response: the body leaves out status_code
send_error_response_NoCode(status_code, text, arg) ==
    send_json_response([error |-> TRUE, message |-> [text |-> text, arg |-> arg]], status_code)

\* send_error_response(status_code, message); a message is its fixed text
\* and the value formatted into it
send_error_response(status_code, text, arg) ==
    send_json_response([error |-> TRUE, status_code |-> status_code,
                        message |-> [text |-> text, arg |-> arg]], status_code)

\* What handling one request did: the store afterwards, the responses
\* written to the connection in order, and whether an exception left the
\* handler.
Result(users, next, sent, raised) ==
    [users |-> users, next |-> next, sent |-> sent, raised |-> raised]

(***************************************************************************)
(* The request body reader                                                  *)
(***************************************************************************)

\* read_json_body: the parsed value, None (JNull) for no body, an unusable
\* Content-Length, bytes that are not UTF-8, text that is not JSON. The
\* except clause names json.JSONDecodeError and ValueError: the
\* RecursionError of a document nested too deeply is neither, and leaves
\* the method.
read_json_body(body) ==
    LET content_length == IF body.clen.present THEN IntOf(body.clen.value)
                          ELSE [ok |-> TRUE, val |-> 0]
    IN  IF ~content_length.ok THEN JNull
        ELSE IF content_length.val = 0 THEN JNull
        ELSE IF ~body.utf8 THEN JNull
        ELSE IF body.value.t = "deep" THEN RecursionError
        ELSE IF ~body.json THEN JNull
        ELSE body.value

(***************************************************************************)
(* The static file resolver                                                 *)
(***************************************************************************)

\* public_dir = os.path.abspath('public')
public_dir == AbsPath(s_public)

\* requested_path = os.path.abspath(os.path.join(public_dir, filepath))
requested_path(filepath) == AbsPath(OsPathJoin(public_dir, filepath))

\* the traversal check: requested_path.startswith(public_dir)
InsidePublic(path) == StartsWith(path, public_dir)

\* a variant of serve_static_file: the existence check made before the
\* directory is replaced by its index.html
serve_static_file_ExistsFirst(filepath) ==
    LET rp == requested_path(filepath) IN
    IF ~InsidePublic(rp)
    THEN << send_error_response(403, "Access denied", << >>) >>
    ELSE IF ~Exists(rp)
    THEN << send_error_response(404, "File not found: ", filepath) >>
    ELSE LET target == IF IsDir(rp) THEN OsPathJoin(rp, s_index_html) ELSE rp
             f == ReadFile(target)
         IN  IF f.ok
             THEN << [status |-> 200, ctype |-> ContentType(Lower(SplitExt(target))),
                      body |-> [file |-> f.content]] >>
             ELSE << send_error_response(500, "Internal server error", << >>) >>

\* serve_static_file(filepath): the responses it writes
serve_static_file(filepath) ==
    LET rp == requested_path(filepath) IN
    IF ~InsidePublic(rp)
    THEN << send_error_response(403, "Access denied", << >>) >>
    ELSE LET target == IF IsDir(rp) THEN OsPathJoin(rp, s_index_html) ELSE rp IN
         IF ~Exists(target)
         THEN << send_error_response(404, "File not found: ", filepath) >>
         ELSE LET f == ReadFile(target) IN
              IF f.ok
              THEN << [status |-> 200, ctype |-> ContentType(Lower(SplitExt(target))),
                       body |-> [file |-> f.content]] >>
              ELSE << send_error_response(500, "Internal server error", << >>) >>

(***************************************************************************)
(* The user store and the API handlers                                      *)
(***************************************************************************)

User(id, name, email, role) == [id |-> id, name |-> name, email |-> email, role |-> role]

\* USERS as the module is loaded
SeedUsers ==
    << User(1, JStr(<< "A", "l", "i", "c", "e", " ", "J", "o", "h", "n", "s", "o", "n" >>),
               JStr(<< "a", "l", "i", "c", "e", "@", "e", "x", "a", "m", "p", "l", "e", ".", "c", "o", "m" >>),
               JStr(<< "a", "d", "m", "i", "n" >>)),
       User(2, JStr(<< "B", "o", "b", " ", "S", "m", "i", "t", "h" >>),
               JStr(<< "b", "o", "b", "@", "e", "x", "a", "m", "p", "l", "e", ".", "c", "o", "m" >>),
               JStr(v_user)),
       User(3, JStr(<< "C", "a", "r", "o", "l", " ", "W", "h", "i", "t", "e" >>),
               JStr(<< "c", "a", "r", "o", "l", "@", "e", "x", "a", "m", "p", "l", "e", ".", "c", "o", "m" >>),
               JStr(v_user)) >>

\* NEXT_USER_ID as the module is loaded
SeedNextUserId == 4

p_api_prefix == << "/", "a", "p", "i", "/" >>
p_api_users == << "/", "a", "p", "i", "/", "u", "s", "e", "r", "s" >>
p_api_users_slash == << "/", "a", "p", "i", "/", "u", "s", "e", "r", "s", "/" >>
p_api_time == << "/", "a", "p", "i", "/", "t", "i", "m", "e" >>

\* urlparse(self.path).path for an origin-form target: what precedes the
\* query ('?') or the fragment ('#')
UrlPath(target) ==
    LET i == FirstOf(target, {"?", "#"}, 1) IN
    IF i = 0 THEN target ELSE SubSeq(target, 1, i - 1)

\* a variant of FindUser: the id used as a 0-based list index
FindUserByIndex(users, user_id) ==
    IF user_id + 1 \in 1..Len(users) THEN << users[user_id + 1] >> ELSE << >>

\* next((u for u in USERS if u['id'] == user_id), None): the first match
FindUser(users, user_id) ==
    IF \E i \in 1..Len(users) : users[i].id = user_id
    THEN << users[CHOOSE i \in 1..Len(users) :
                     /\ users[i].id = user_id
                     /\ \A j \in 1..(i - 1) : users[j].id # user_id] >>
    ELSE << >>

\* the body of GET /api/users
ListBody(users) == [success |-> TRUE, count |-> Len(users), users |-> users]

\* handle_api_get(path); clock holds the three readings of the clock that
\* GET /api/time takes
handle_api_get(path, users, clock) ==
    IF path = p_api_users
    THEN << send_json_response(ListBody(users), 200) >>
    ELSE IF StartsWith(path, p_api_users_slash)
    THEN LET user_id == IntOf(Last(Split(path))) IN
         IF ~user_id.ok
         THEN << send_error_response(400, "Invalid user ID format", << >>) >>
         ELSE LET user == FindUser(users, user_id.val) IN
              IF user # << >>
              THEN << send_json_response([success |-> TRUE, user |-> user[1]], 200) >>
              ELSE << send_error_response(404, "User with ID not found", user_id.val) >>
    ELSE IF path = p_api_time
    THEN << send_json_response([success |-> TRUE,
                                time |-> [iso |-> clock[1], timestamp |-> clock[2],
                                          readable |-> clock[3]]], 200) >>
    ELSE << send_error_response(404, "API endpoint not found: ", path) >>

\* a variant of NextId: the counter is left as it was
NextIdStuck(next) == next

\* a variant of NextId: the counter advances by two
NextIdSkips(next) == next + 2

\* NEXT_USER_ID += 1
NextId(next) == next + 1

\* a variant of NewUser: the role of the body is not looked at
NewUserDefaultRole(data, next) ==
    User(next, PyGetItem(data, k_name).val, PyGetItem(data, k_email).val, JStr(v_user))

\* the record POST /api/users builds from a dict that has name and email
NewUser(data, next) ==
    User(next, PyGetItem(data, k_name).val, PyGetItem(data, k_email).val,
         PyGet(data, k_role, JStr(v_user)))

\* a variant of CreateUser: the record is returned and never appended
CreateUserNoAppend(data, users, next) ==
    LET new_user == NewUser(data, next) IN
    Result(users, NextId(next),
           << send_json_response([success |-> TRUE, message |-> "User created successfully",
                                  user |-> new_user], 201) >>,
           FALSE)

\* a variant of CreateUser: the record is put in front of the list
CreateUserPrepend(data, users, next) ==
    LET new_user == NewUser(data, next) IN
    Result(<< new_user >> \o users, NextId(next),
           << send_json_response([success |-> TRUE, message |-> "User created successfully",
                                  user |-> new_user], 201) >>,
           FALSE)

\* the creation itself: USERS.append(new_user), NEXT_USER_ID += 1, 201
CreateUser(data, users, next) ==
    LET new_user == NewUser(data, next) IN
    Result(Append(users, new_user), NextId(next),
           << send_json_response([success |-> TRUE, message |-> "User created successfully",
                                  user |-> new_user], 201) >>,
           FALSE)

\* a variant of BadRequest: the id is taken before the body is validated
BadRequestConsumesId(users, next, text) ==
    Result(users, next + 1, << send_error_response(400, text, << >>) >>, FALSE)

\* a variant of BadRequest: the record is appended before the body is
\* validated
BadRequestAfterAppend(users, next, text) ==
    Result(Append(users, [id |-> next, name |-> JNull, email |-> JNull, role |-> JNull]), next,
           << send_error_response(400, text, << >>) >>, FALSE)

\* send_error_response(400, ...) and return: the store is left as it was
BadRequest(users, next, text) ==
    Result(users, next, << send_error_response(400, text, << >>) >>, FALSE)

\* What handle_api_post decides about the parsed body, before it touches
\* the store: reject it with 400, raise (the exception that left
\* read_json_body, a TypeError of `in` or of the subscript), or create the
\* user.
Validate(data) ==
    IF data.t = "RecursionError"
    THEN [verdict |-> "raise", text |-> ""]
    ELSE IF data.t = "null"
    THEN [verdict |-> "reject", text |-> "Invalid JSON in request body"]
    ELSE LET has_name == PyIn(k_name, data)
             has_email == PyIn(k_email, data)
         IN  IF has_name.raised \/ (has_name.val /\ has_email.raised)
             THEN [verdict |-> "raise", text |-> ""]
             ELSE IF ~has_name.val \/ ~has_email.val
             THEN [verdict |-> "reject", text |-> "Missing required fields: name, email"]
             ELSE IF PyGetItem(data, k_name).raised \/ PyGetItem(data, k_email).raised
             THEN [verdict |-> "raise", text |-> ""]
             ELSE [verdict |-> "create", text |-> ""]

\* a variant of handle_api_post: the route matched by prefix, as the GET
\* routes are
handle_api_post_ByPrefix(path, body, users, next) ==
    IF StartsWith(path, p_api_users)
    THEN LET data == read_json_body(body)
             v == Validate(data)
         IN  CASE v.verdict = "reject" -> BadRequest(users, next, v.text)
               [] v.verdict = "raise"  -> Result(users, next, << >>, TRUE)
               [] OTHER                -> CreateUser(data, users, next)
    ELSE Result(users, next,
                << send_error_response(404, "API endpoint not found: ", path) >>, FALSE)

\* handle_api_post(path)
handle_api_post(path, body, users, next) ==
    IF path = p_api_users
    THEN LET data == read_json_body(body)
             v == Validate(data)
         IN  CASE v.verdict = "reject" -> BadRequest(users, next, v.text)
               [] v.verdict = "raise"  -> Result(users, next, << >>, TRUE)
               [] OTHER                -> CreateUser(data, users, next)
    ELSE Result(users, next,
                << send_error_response(404, "API endpoint not found: ", path) >>, FALSE)

(***************************************************************************)
(* The router                                                               *)
(***************************************************************************)

\* a variant of IsApiPath: the prefix without its closing slash
IsApiPathNoSlash(path) == StartsWith(path, << "/", "a", "p", "i" >>)

\* path.startswith('/api/')
IsApiPath(path) == StartsWith(path, p_api_prefix)

\* do_GET
do_GET(target, users, next, clock) ==
    LET path == UrlPath(target) IN
    IF IsApiPath(path)
    THEN Result(users, next, handle_api_get(path, users, clock), FALSE)
    ELSE LET stripped == LStrip(path)
             filepath == IF stripped = << >> THEN s_index_html ELSE stripped
         IN  Result(users, next, serve_static_file(filepath), FALSE)

\* do_POST
do_POST(target, body, users, next) ==
    LET path == UrlPath(target) IN
    IF IsApiPath(path)
    THEN handle_api_post(path, body, users, next)
    ELSE Result(users, next,
                << send_error_response(405, "Method not allowed for this path", << >>) >>, FALSE)

\* do_OPTIONS: 200, the CORS headers, no body
do_OPTIONS(users, next) ==
    Result(users, next, << [status |-> 200, ctype |-> "", body |-> << >>] >>, FALSE)

\* The methods HTTPRequestHandler defines a do_<METHOD> for.
HandledMethods == {"GET", "POST", "OPTIONS"}

\* BaseHTTPRequestHandler.handle_one_request for a method the class has no
\* do_<METHOD> for: send_error(501), the base class's HTML error page.
Unsupported(method, users, next) ==
    Result(users, next,
           << [status |-> 501, ctype |-> "text/html;charset=utf-8",
               body |-> [unsupported |-> method]] >>, FALSE)

(***************************************************************************)
(* The requests a client sends                                              *)
(***************************************************************************)

t_root == << "/" >>
t_app_js == << "/", "a", "p", "p", ".", "j", "s" >>
t_locked == << "/", "l", "o", "c", "k", "e", "d", ".", "c", "s", "s" >>
t_docs == << "/", "d", "o", "c", "s" >>
t_docs_slash == << "/", "d", "o", "c", "s", "/" >>
t_empty == << "/", "e", "m", "p", "t", "y" >>
t_nonexistent == << "/", "n", "o", "n", "e", "x", "i", "s", "t", "e", "n", "t", ".", "h", "t", "m", "l" >>
t_up_secret == << "/", ".", ".", "/", "s", "e", "c", "r", "e", "t", "/", "k", "e", "y" >>
t_up_sibling == << "/", ".", ".", "/", "p", "u", "b", "l", "i", "c", "2", "/", "d", "b" >>
t_up_sibling_dir == << "/", ".", ".", "/", "p", "u", "b", "l", "i", "c", "2" >>
t_link == << "/", "l", "n", "/", "k", "e", "y" >>
t_inner_up == << "/", "d", "o", "c", "s", "/", ".", ".", "/", "a", "p", "p", ".", "j", "s" >>
t_encoded == << "/", "%", "2", "e", "%", "2", "e", "/", "s", "e", "c", "r", "e", "t", "/", "k", "e", "y" >>
t_up == << "/", ".", "." >>
t_api_bare == << "/", "a", "p", "i" >>
t_users == << "/", "a", "p", "i", "/", "u", "s", "e", "r", "s" >>
t_users_query == << "/", "a", "p", "i", "/", "u", "s", "e", "r", "s", "?", "l", "i", "m", "i", "t", "=", "1" >>
t_user_1 == << "/", "a", "p", "i", "/", "u", "s", "e", "r", "s", "/", "1" >>
t_user_4 == << "/", "a", "p", "i", "/", "u", "s", "e", "r", "s", "/", "4" >>
t_user_5 == << "/", "a", "p", "i", "/", "u", "s", "e", "r", "s", "/", "5" >>
t_user_99 == << "/", "a", "p", "i", "/", "u", "s", "e", "r", "s", "/", "9", "9" >>
t_user_abc == << "/", "a", "p", "i", "/", "u", "s", "e", "r", "s", "/", "a", "b", "c" >>
t_user_none == << "/", "a", "p", "i", "/", "u", "s", "e", "r", "s", "/" >>
t_user_neg == << "/", "a", "p", "i", "/", "u", "s", "e", "r", "s", "/", "-", "1" >>
t_time == << "/", "a", "p", "i", "/", "t", "i", "m", "e" >>
t_api_other == << "/", "a", "p", "i", "/", "n", "o", "p", "e" >>
t_user_nested == << "/", "a", "p", "i", "/", "u", "s", "e", "r", "s", "/", "a", "b", "c", "/", "1" >>
t_user_plus == << "/", "a", "p", "i", "/", "u", "s", "e", "r", "s", "/", "+", "4" >>

StaticTargets ==
    { t_root, t_app_js, t_locked, t_docs, t_docs_slash, t_empty, t_nonexistent, t_up_secret,
      t_up_sibling, t_up_sibling_dir, t_link, t_inner_up, t_encoded, t_up, t_api_bare }

ApiTargets ==
    { t_users, t_users_query, t_user_1, t_user_4, t_user_5, t_user_99, t_user_abc, t_user_none,
      t_user_neg, t_time, t_api_other, t_user_nested, t_user_plus }

Targets == StaticTargets \cup ApiTargets

\* A request body: the Content-Length header, and whether the bytes decode
\* as UTF-8, whether the text parses as JSON, and the value it parses to.
Body(clen, utf8, json, value) == [clen |-> clen, utf8 |-> utf8, json |-> json, value |-> value]

NoHeader == [present |-> FALSE, value |-> << >>]
Header(value) == [present |-> TRUE, value |-> value]
SomeLength == Header(<< "1", "7" >>)

NoBody == Body(NoHeader, TRUE, TRUE, JNull)

JsonBody(value) == Body(SomeLength, TRUE, TRUE, value)

v_dan == JStr(<< "D", "a", "n" >>)
v_dan_mail == JStr(<< "d", "a", "n", "@", "x", ".", "c", "o", "m" >>)
v_eve == JStr(<< "E", "v", "e" >>)
v_eve_mail == JStr(<< "e", "v", "e", "@", "x", ".", "c", "o", "m" >>)
v_admin == JStr(<< "a", "d", "m", "i", "n" >>)

\* bodies POST /api/users creates a user from
ObjectBodies ==
    { JsonBody(JObj(<< << k_name, v_dan >>, << k_email, v_dan_mail >> >>)),
      JsonBody(JObj(<< << k_name, v_eve >>, << k_email, v_eve_mail >>, << k_role, v_admin >> >>)),
      JsonBody(JObj(<< << k_email, JNull >>, << k_name, JNum(1) >> >>)),
      JsonBody(JObj(<< << k_name, v_eve >>, << k_email, v_eve_mail >>, << k_name, v_dan >> >>)) }

\* the other bodies: absent, unreadable, not JSON, JSON that is no object,
\* objects without name or email
OtherBodies ==
    { NoBody,
      Body(Header(<< "0" >>), TRUE, TRUE, v_dan),
      Body(Header(<< "a", "b", "c" >>), TRUE, TRUE, v_dan),
      Body(SomeLength, FALSE, FALSE, JNull),
      Body(SomeLength, TRUE, FALSE, JNull),
      JsonBody(JNull),
      JsonBody(JNum(5)),
      JsonBody(JBool(TRUE)),
      JsonBody(JStr(<< >>)),
      JsonBody(JStr(<< "n", "a", "m", "e", " ", "e", "m", "a", "i", "l" >>)),
      JsonBody(JStr(<< "n", "a", "m", "e" >>)),
      JsonBody(JList(<< >>)),
      JsonBody(JList(<< JStr(k_name), JStr(k_email) >>)),
      JsonBody(JList(<< JStr(k_email) >>)),
      JsonBody(JObj(<< >>)),
      JsonBody(JObj(<< << k_name, v_dan >> >>)),
      JsonBody(JObj(<< << k_email, v_dan_mail >>, << k_role, v_admin >> >>)),
      JsonBody(JDeep) }

Bodies == ObjectBodies \cup OtherBodies

Request(method, target, body) == [method |-> method, target |-> target, body |-> body]

\* before the first request
NoRequest == Request("", << >>, NoBody)

GetRequests == { Request("GET", t, NoBody) : t \in Targets }

PostRequests ==
    { Request("POST", t_users, b) : b \in Bodies }
    \cup { Request("POST", t, JsonBody(JObj(<< << k_name, v_dan >>, << k_email, v_dan_mail >> >>))) :
             t \in { t_users_query, t_user_1, t_api_other, t_root, t_app_js, t_api_bare } }

OptionsRequests == { Request("OPTIONS", t, NoBody) : t \in { t_root, t_users, t_api_other } }

OtherRequests ==
    { Request(m, t, NoBody) : m \in { "PUT", "DELETE", "HEAD" }, t \in { t_root, t_app_js, t_users } }

\* the readings of the clock one GET /api/time takes, in order
Clocks == { << 0, 0, 0 >>, << 0, 0, 1 >>, << 0, 1, 1 >>, << 1, 1, 1 >> }
NoClock == << 0, 0, 0 >>

(***************************************************************************)
(* The server: one request handled at a time, to completion                 *)
(***************************************************************************)

\* how many users the model lets requests create
MaxCreated == 2

VARIABLES
    USERS,          \* the global list of user records
    NEXT_USER_ID,   \* the global counter
    request,        \* the request handled last
    sent,           \* the responses written for it, in order
    raised,         \* whether an exception left its handler
    created,        \* the records returned by the 201 responses so far
    listed,         \* the body of the last GET /api/users since the last 201
    conns           \* per client connection, its POST /api/users and the handler's frame

vars == << USERS, NEXT_USER_ID, request, sent, raised, created, listed, conns >>

\* how many client connections the second specification follows
NConn == 2

Conns == 1..NConn

NoUser == User(0, JNull, JNull, JNull)

\* a connection no request was sent on yet
NewConn ==
    [pc |-> "new", body |-> NoBody, inflight |-> FALSE, data |-> JNull, new_user |-> NoUser,
     tmp |-> 0, sent |-> << >>, raised |-> FALSE]

Init ==
    /\ USERS = SeedUsers
    /\ NEXT_USER_ID = SeedNextUserId
    /\ request = NoRequest
    /\ sent = << >>
    /\ raised = FALSE
    /\ created = << >>
    /\ listed = << >>
    /\ conns = [c \in Conns |-> NewConn]

IsCreated(responses) == responses # << >> /\ responses[1].status = 201

IsListing(req) == req.method = "GET" /\ UrlPath(req.target) = p_api_users

\* the server has handled req with outcome res
Handled(req, res) ==
    /\ Len(res.users) <= Len(SeedUsers) + MaxCreated
    /\ IsCreated(res.sent) => Len(created) < MaxCreated
    /\ USERS' = res.users
    /\ NEXT_USER_ID' = res.next
    /\ request' = req
    /\ sent' = res.sent
    /\ raised' = res.raised
    /\ created' = IF IsCreated(res.sent) THEN Append(created, res.sent[1].body.user) ELSE created
    /\ listed' = IF IsCreated(res.sent) THEN << >>
                 ELSE IF IsListing(req) THEN << res.sent[1].body >>
                 ELSE listed
    /\ UNCHANGED conns

HandleGet ==
    \E req \in GetRequests, clock \in Clocks :
        /\ UrlPath(req.target) = p_api_time \/ clock = NoClock
        /\ Handled(req, do_GET(req.target, USERS, NEXT_USER_ID, clock))

HandlePost ==
    \E req \in PostRequests :
        Handled(req, do_POST(req.target, req.body, USERS, NEXT_USER_ID))

HandleOptions ==
    \E req \in OptionsRequests :
        Handled(req, do_OPTIONS(USERS, NEXT_USER_ID))

HandleUnsupported ==
    \E req \in OtherRequests :
        /\ req.method \notin HandledMethods
        /\ Handled(req, Unsupported(req.method, USERS, NEXT_USER_ID))

Next == HandleGet \/ HandlePost \/ HandleOptions \/ HandleUnsupported

Spec == Init /\ [][Next]_vars

(***************************************************************************)
(* The same server seen statement by statement: clients connect and send   *)
(* POST /api/users at any time; the server takes a connection from the      *)
(* listen queue and runs handle_api_post on it, one read or write of the    *)
(* globals per step.                                                        *)
(***************************************************************************)

ConcBodies ==
    { JsonBody(JObj(<< << k_name, v_dan >>, << k_email, v_dan_mail >> >>)),
      JsonBody(JObj(<< << k_name, v_eve >>, << k_email, v_eve_mail >>, << k_role, v_admin >> >>)),
      JsonBody(JObj(<< << k_name, v_dan >> >>)) }

\* a request is in flight on the connection: sent, and not yet answered
InFlight(frame) == frame.pc \notin {"new", "done"}

\* a handler is running on the connection
Running(frame) == frame.pc \notin {"new", "queued", "done"}

\* a variant of CanAccept: a thread per connection (ThreadingHTTPServer)
CanAcceptThreaded(frames) == TRUE

\* HTTPServer.serve_forever: the next connection is accepted when the
\* handler of the one before has returned
CanAccept(frames) == \A c \in DOMAIN frames : ~Running(frames[c])

ConcFrame == UNCHANGED << request, sent, raised, listed >>

\* a client connects and sends its POST /api/users
Connect(c) ==
    /\ conns[c].pc = "new"
    /\ \E b \in ConcBodies :
          conns' = [conns EXCEPT ![c] = [@ EXCEPT !.pc = "queued", !.body = b,
                                                   !.inflight = \E d \in Conns : InFlight(conns[d])]]
    /\ UNCHANGED << USERS, NEXT_USER_ID, created >>
    /\ ConcFrame

\* the server accepts the connection; do_POST routes it to handle_api_post
Accept(c) ==
    /\ conns[c].pc = "queued"
    /\ CanAccept(conns)
    /\ conns' = [conns EXCEPT ![c].pc = "read"]
    /\ UNCHANGED << USERS, NEXT_USER_ID, created >>
    /\ ConcFrame

\* data = self.read_json_body() and the checks of it, which end the
\* handler with 400 or with an exception, or let it go on
ReadBody(c) ==
    /\ conns[c].pc = "read"
    /\ LET data == read_json_body(conns[c].body)
           v == Validate(data)
           r == CASE v.verdict = "reject" -> BadRequest(USERS, NEXT_USER_ID, v.text)
                  [] OTHER -> Result(USERS, NEXT_USER_ID, << >>, v.verdict = "raise")
       IN  /\ conns' = [conns EXCEPT ![c] =
                           IF v.verdict = "create"
                           THEN [@ EXCEPT !.pc = "build", !.data = data]
                           ELSE [@ EXCEPT !.pc = "done", !.data = data, !.sent = r.sent,
                                          !.raised = r.raised]]
           /\ USERS' = r.users
           /\ NEXT_USER_ID' = r.next
    /\ UNCHANGED created
    /\ ConcFrame

\* new_user = {"id": NEXT_USER_ID, ...}
Build(c) ==
    /\ conns[c].pc = "build"
    /\ conns' = [conns EXCEPT ![c] = [@ EXCEPT !.pc = "append",
                                               !.new_user = NewUser(conns[c].data, NEXT_USER_ID)]]
    /\ UNCHANGED << USERS, NEXT_USER_ID, created >>
    /\ ConcFrame

\* USERS.append(new_user)
AppendUser(c) ==
    /\ conns[c].pc = "append"
    /\ USERS' = Append(USERS, conns[c].new_user)
    /\ conns' = [conns EXCEPT ![c].pc = "load"]
    /\ UNCHANGED << NEXT_USER_ID, created >>
    /\ ConcFrame

\* NEXT_USER_ID += 1, the read of the global
LoadNext(c) ==
    /\ conns[c].pc = "load"
    /\ conns' = [conns EXCEPT ![c] = [@ EXCEPT !.pc = "store", !.tmp = NEXT_USER_ID]]
    /\ UNCHANGED << USERS, NEXT_USER_ID, created >>
    /\ ConcFrame

\* NEXT_USER_ID += 1, the write of the global
StoreNext(c) ==
    /\ conns[c].pc = "store"
    /\ NEXT_USER_ID' = NextId(conns[c].tmp)
    /\ conns' = [conns EXCEPT ![c].pc = "send"]
    /\ UNCHANGED << USERS, created >>
    /\ ConcFrame

\* self.send_json_response({... "user": new_user}, status_code=201)
SendCreated(c) ==
    /\ conns[c].pc = "send"
    /\ conns' = [conns EXCEPT ![c] =
                    [@ EXCEPT !.pc = "done",
                              !.sent = << send_json_response(
                                             [success |-> TRUE, message |-> "User created successfully",
                                              user |-> conns[c].new_user], 201) >>]]
    /\ created' = Append(created, conns[c].new_user)
    /\ UNCHANGED << USERS, NEXT_USER_ID >>
    /\ ConcFrame

NextConc ==
    \E c \in Conns :
        \/ Connect(c)
        \/ Accept(c)
        \/ ReadBody(c)
        \/ Build(c)
        \/ AppendUser(c)
        \/ LoadNext(c)
        \/ StoreNext(c)
        \/ SendCreated(c)

SpecConc == Init /\ [][NextConc]_vars

(***************************************************************************)
(* Properties                                                               *)
(***************************************************************************)

SomeRequest == request # NoRequest

\* the path of the request handled last
LastPath == UrlPath(request.target)

OneResponse(responses, status) == Len(responses) = 1 /\ responses[1].status = status

\* every id handed out so far: the seeded ones, then those of the 201s
AssignedIds ==
    [i \in 1..(Len(SeedUsers) + Len(created)) |->
        IF i <= Len(SeedUsers) THEN SeedUsers[i].id ELSE created[i - Len(SeedUsers)].id]

\* C1: NEXT_USER_ID is greater than the id of every record of USERS, no two
\* records of USERS share an id, and no id was handed out twice.
C1_NextIdAboveEveryId ==
    /\ \A i \in 1..Len(USERS) : USERS[i].id < NEXT_USER_ID
    /\ \A i, j \in 1..Len(USERS) : i # j => USERS[i].id # USERS[j].id
    /\ \A i, j \in 1..Len(AssignedIds) : i # j => AssignedIds[i] # AssignedIds[j]

C1_Witness == Len(created) = 2 /\ Len(USERS) = 5 /\ NEXT_USER_ID = 6

\* the components of the served root and of the place a static GET's path
\* leads to once '..' and symbolic links are resolved
CanonicalRoot == RealPath(AbsStr(Cwd \o << s_public >>))
CanonicalLocation(path) == RealPath(AbsStr(Cwd \o << s_public >>) \o << "/" >> \o LStrip(path))

IsPrefix(a, b) == Len(a) <= Len(b) /\ SubSeq(b, 1, Len(a)) = a

IsStaticGet == request.method = "GET" /\ ~StartsWith(LastPath, p_api_prefix)

\* C2: a static GET whose canonical location is outside the root is
\* answered 403, and with no file bytes.
C2_EscapeIsForbidden ==
    (IsStaticGet /\ ~IsPrefix(CanonicalRoot, CanonicalLocation(LastPath)))
        => OneResponse(sent, 403)

\* C3: every request handled ends with exactly one response, and no
\* exception leaves the handler.
C3_ExactlyOneResponse == SomeRequest => (Len(sent) = 1 /\ ~raised)

IsPostUsers(req) == req.method = "POST" /\ UrlPath(req.target) = p_api_users

\* a body that reaches the handler as a JSON object with string name and email
IsUserObject(body) ==
    /\ body.clen.present /\ IntOf(body.clen.value).ok /\ IntOf(body.clen.value).val > 0
    /\ body.utf8 /\ body.json
    /\ body.value.t = "obj"
    /\ \A k \in {k_name, k_email} :
          /\ \E i \in 1..Len(body.value.o) : body.value.o[i][1] = k
          /\ \A i \in 1..Len(body.value.o) :
                (body.value.o[i][1] = k /\ \A j \in (i + 1)..Len(body.value.o) : body.value.o[j][1] # k)
                    => body.value.o[i][2].t = "str"

\* C4: POST /api/users answers 201 when the body is a JSON object with
\* string name and email, and 400 for every other body.
C4_CreatedOnlyFromUserObject ==
    IsPostUsers(request)
        => IF IsUserObject(request.body) THEN OneResponse(sent, 201) ELSE OneResponse(sent, 400)

\* C5: a POST /api/users answered 400 leaves USERS and NEXT_USER_ID as
\* they were.
C5_RejectedPostKeepsStore ==
    [][(IsPostUsers(request') /\ sent' # << >> /\ sent'[1].status = 400)
          => (USERS' = USERS /\ NEXT_USER_ID' = NEXT_USER_ID)]_vars

C5_Witness ==
    /\ IsPostUsers(request)
    /\ request.body = JsonBody(JObj(<< << k_name, v_dan >> >>))
    /\ OneResponse(sent, 400)
    /\ Len(created) = 1 /\ Len(USERS) = 4 /\ NEXT_USER_ID = 5

\* C6: the id a successful POST /api/users returns is greater than the id
\* every earlier successful POST returned, and the POST makes USERS one
\* record longer.
C6_CreatedIdsIncrease ==
    [][(IsPostUsers(request') /\ IsCreated(sent'))
          => /\ Len(USERS') = Len(USERS) + 1
             /\ \A i \in 1..Len(created) : created[i].id < sent'[1].body.user.id]_vars

C6_Witness ==
    /\ IsPostUsers(request) /\ IsCreated(sent)
    /\ Len(created) = 2 /\ created[1].id < created[2].id /\ sent[1].body.user.id = created[2].id

\* the connections answered 201
Answered201 == { c \in Conns : conns[c].pc = "done" /\ IsCreated(conns[c].sent) }

\* C7: with several POST /api/users in flight at once, no two of them are
\* answered with the same id, no two records of USERS share an id, and the
\* record of every 201 is in USERS, once.
C7_ConcurrentPostsLinearizable ==
    /\ \A i, j \in 1..Len(USERS) : i # j => USERS[i].id # USERS[j].id
    /\ \A c, d \in Answered201 :
          c # d => conns[c].sent[1].body.user.id # conns[d].sent[1].body.user.id
    /\ \A c \in Answered201 :
          Cardinality({ i \in 1..Len(USERS) : USERS[i] = conns[c].sent[1].body.user }) = 1
    /\ Len(USERS) = Len(SeedUsers)
                    + Cardinality({ c \in Conns : conns[c].pc \in {"load", "store", "send"} })
                    + Cardinality(Answered201)

C7_Witness ==
    /\ Answered201 = Conns
    /\ \E c \in Conns : conns[c].inflight
    /\ Len(USERS) = Len(SeedUsers) + NConn


IsUserLookup ==
    /\ request.method = "GET"
    /\ StartsWith(LastPath, p_api_users_slash)
    /\ IntOf(Last(Split(LastPath))).ok

LookupId == IntOf(Last(Split(LastPath))).val

\* C8: GET /api/users/<integer> answers 200 with the stored record when
\* USERS has a record with that id (the record a 201 returned, when the id
\* came from a POST), and 404 when it has none.
C8_LookupFindsStoredRecord ==
    IsUserLookup =>
        IF \E i \in 1..Len(USERS) : USERS[i].id = LookupId
        THEN /\ OneResponse(sent, 200)
             /\ \A i \in 1..Len(USERS) : USERS[i].id = LookupId => sent[1].body.user = USERS[i]
             /\ \A i \in 1..Len(created) : created[i].id = LookupId => sent[1].body.user = created[i]
        ELSE OneResponse(sent, 404)

C8_Witness ==
    /\ request = Request("GET", t_user_4, NoBody)
    /\ OneResponse(sent, 200)
    /\ Len(created) >= 1 /\ sent[1].body.user = created[1]

\* C9: a GET leaves USERS and NEXT_USER_ID as they were; GET /api/users
\* returns a count equal to the number of records it returns, and the same
\* body as the GET /api/users before it when no POST succeeded in between.
C9_GetIsReadOnly ==
    [][(request'.method = "GET" =>
            /\ USERS' = USERS /\ NEXT_USER_ID' = NEXT_USER_ID)
       /\ (IsListing(request') =>
            /\ OneResponse(sent', 200)
            /\ sent'[1].body.count = Len(sent'[1].body.users)
            /\ listed # << >> => sent'[1].body = listed[1])]_vars

C9_Witness ==
    /\ request = Request("GET", t_users, NoBody)
    /\ OneResponse(sent, 200)
    /\ listed = << sent[1].body >>
    /\ Len(created) = 1 /\ sent[1].body.count = 4 /\ sent[1].body.users = USERS

StaticFilePath == IF LStrip(LastPath) = << >> THEN s_index_html ELSE LStrip(LastPath)

IsApiRoute(method, path) ==
    \/ method = "GET" /\ path = p_api_users
    \/ method = "GET" /\ StartsWith(path, p_api_users_slash)
    \/ method = "GET" /\ path = p_api_time
    \/ method = "POST" /\ path = p_api_users

\* a request under '/api/' that is not OPTIONS and matches no route
IsUnmatchedApi(req) ==
    /\ req # NoRequest
    /\ StartsWith(UrlPath(req.target), p_api_prefix)
    /\ req.method # "OPTIONS"
    /\ ~IsApiRoute(req.method, UrlPath(req.target))

\* the 404 of the API: its message names the path
IsApiNotFound(responses, path) ==
    /\ OneResponse(responses, 404)
    /\ responses[1].body.message.text = "API endpoint not found: "
    /\ responses[1].body.message.arg = path

KeyIndices(value, key) == { i \in 1..Len(value.o) : value.o[i][1] = key }

\* what a JSON object gives for a key: the value of its last pair with that
\* key, or the default when it has none
FieldOr(value, key, default) ==
    IF KeyIndices(value, key) = { } THEN default
    ELSE value.o[CHOOSE i \in KeyIndices(value, key) : \A j \in KeyIndices(value, key) : j <= i][2]

\* C12: a POST /api/users answered 201 returns the record whose id is
\* NEXT_USER_ID as it was before the request, whose name and email are the
\* body's and whose role is the body's, or "user" when the body has none;
\* that record is the last of USERS afterwards. From the seeded store the
\* first id is 4, and a GET /api/users after one creation counts 4.
C12_CreatedRecordMatchesBody ==
    [][/\ (IsPostUsers(request') /\ IsCreated(sent')) =>
             /\ Len(sent') = 1
             /\ sent'[1].body.user.id = NEXT_USER_ID
             /\ sent'[1].body.user.name = FieldOr(request'.body.value, k_name, JNull)
             /\ sent'[1].body.user.email = FieldOr(request'.body.value, k_email, JNull)
             /\ sent'[1].body.user.role = FieldOr(request'.body.value, k_role, JStr(v_user))
             /\ USERS'[Len(USERS')] = sent'[1].body.user
             /\ USERS = SeedUsers => sent'[1].body.user.id = 4
       /\ (IsListing(request') /\ Len(created) = 1) => sent'[1].body.count = 4]_vars

C12_Witness ==
    /\ IsPostUsers(request)
    /\ request.body = JsonBody(JObj(<< << k_name, v_dan >>, << k_email, v_dan_mail >> >>))
    /\ OneResponse(sent, 201)
    /\ sent[1].body.user = User(4, v_dan, v_dan_mail, JStr(v_user))
    /\ USERS = Append(SeedUsers, sent[1].body.user)

IsFailure(response) == response.status >= 400 /\ response.status <= 599

\* the structured error envelope: {error: true, status_code, message}, with
\* the status code of the response
IsErrorEnvelope(response) ==
    /\ response.ctype = "application/json"
    /\ DOMAIN response.body = {"error", "status_code", "message"}
    /\ response.body.error = TRUE
    /\ response.body.status_code = response.status

IsUserPathGet == request.method = "GET" /\ StartsWith(LastPath, p_api_users_slash)

\* what follows the last '/' of the path
TrailingSegment == Last(Split(LastPath))

Unsigned(seg) == IF seg # << >> /\ seg[1] \in {"+", "-"} THEN Tail(seg) ELSE seg

\* the segment is the text of an integer: decimal digits, a sign before
\* them or none
IsIntegerText(seg) ==
    Unsigned(seg) # << >> /\ \A i \in 1..Len(Unsigned(seg)) : Unsigned(seg)[i] \in Digits

IntegerValue(seg) ==
    IF seg[1] = "-" THEN 0 - DecVal(Unsigned(seg), 0) ELSE DecVal(Unsigned(seg), 0)

\* C14: GET /api/users/<segments> answers 400 exactly when the trailing
\* segment is not the text of an integer (the empty segment included);
\* otherwise it answers 200 with the record of that id or 404 naming that id.
C14_BadRequestIffNotInteger ==
    IsUserPathGet =>
        IF IsIntegerText(TrailingSegment)
        THEN \/ /\ OneResponse(sent, 200)
                /\ sent[1].body.user.id = IntegerValue(TrailingSegment)
             \/ /\ OneResponse(sent, 404)
                /\ sent[1].body.message.arg = IntegerValue(TrailingSegment)
        ELSE OneResponse(sent, 400)

C14_Witness ==
    /\ request.method = "GET" /\ request.target = t_user_none
    /\ TrailingSegment = << >>
    /\ OneResponse(sent, 400)

\* the node a static GET is answered from: the one at the canonical
\* location, or its index.html when that is a directory
ServedNode(path) ==
    LET loc == CanonicalLocation(path)
        node == Lstat(loc)
    IN  IF node.type = "dir" THEN Lstat(Append(loc, s_index_html)) ELSE node

\* C15: a static GET whose location stays inside the root is answered from
\* <path>/index.html when the path is a directory; 404 when the resulting
\* path does not exist, 200 with the file's bytes when it exists and is
\* read, 500 with the generic message when reading it fails.
C15_StaticInsideRoot ==
    (IsStaticGet /\ IsPrefix(CanonicalRoot, CanonicalLocation(LastPath))) =>
        LET node == ServedNode(LastPath) IN
        CASE node.type = "none" ->
                 /\ OneResponse(sent, 404)
                 /\ sent[1].body.message.text = "File not found: "
          [] node.type = "file" /\ node.readable ->
                 /\ OneResponse(sent, 200)
                 /\ sent[1].ctype # "application/json"
                 /\ sent[1].body.file = node.path
          [] OTHER ->
                 /\ OneResponse(sent, 500)
                 /\ sent[1].body.message = [text |-> "Internal server error", arg |-> << >>]

C15_Witness ==
    /\ request.method = "GET" /\ request.target = t_docs
    /\ OneResponse(sent, 200)
    /\ sent[1].body.file = << s_srv, s_public, s_docs, s_index_html >>

\* the body has no Content-Length or one of 0 or one that is no integer, or
\* its bytes are not UTF-8, or its text is not JSON
NoUsableBody(body) ==
    \/ ~body.clen.present
    \/ ~IsIntegerText(body.clen.value)
    \/ IntegerValue(body.clen.value) = 0
    \/ ~body.utf8
    \/ ~body.json

\* C16: read_json_body never raises; for a missing, zero or unparseable
\* Content-Length and for a body that is not UTF-8 or not JSON it returns
\* None, and POST /api/users then answers 400.
C16_ReaderNeverRaises ==
    IsPostUsers(request) =>
        /\ read_json_body(request.body).t # "RecursionError"
        /\ NoUsableBody(request.body) =>
              /\ read_json_body(request.body) = JNull
              /\ ~raised
              /\ OneResponse(sent, 400)

\* C17: USERS is append-only: no request removes a record or changes one,
\* and the records already in the list keep their places.
C17_StoreAppendOnly ==
    [][/\ Len(USERS') >= Len(USERS)
       /\ \A i \in 1..Len(USERS) : USERS'[i] = USERS[i]]_vars

C17_Witness ==
    /\ IsPostUsers(request) /\ IsCreated(sent)
    /\ Len(created) = 2
    /\ USERS = SeedUsers \o created

\* C18: between requests the ids of USERS are 1..len(USERS) in list order
\* and NEXT_USER_ID is len(USERS) + 1.
C18_IdsAreDense ==
    /\ \A i \in 1..Len(USERS) : USERS[i].id = i
    /\ NEXT_USER_ID = Len(USERS) + 1

C18_Witness ==
    /\ IsPostUsers(request) /\ OneResponse(sent, 400)
    /\ Len(created) = 2
    /\ [i \in 1..Len(USERS) |-> USERS[i].id] = << 1, 2, 3, 4, 5 >>
    /\ NEXT_USER_ID = 6

====
